---- MODULE Spec2Model ----
(***************************************************************************)
(* raccoon: Gitlab webhooks rendered to one line and forwarded to IRC.     *)
(*                                                                         *)
(*   src/src/gitlab.rs  dispatch, the event schemas and their Display      *)
(*   src/src/irc.rs     RealIrcWriter::write, init and its background      *)
(*                      thread                                             *)
(*   src/src/main.rs    compare_gitlab_token, handle_gitlab, main          *)
(*                                                                         *)
(* A Rust String is a sequence of characters; a character is written as a  *)
(* one-letter string, a non-ASCII one as "U+XXXX".  Width gives the length *)
(* of its UTF-8 encoding, so that String::len and String::truncate, which  *)
(* count bytes, can be told apart from a count of characters.              *)
(***************************************************************************)
EXTENDS Integers, Sequences, FiniteSets, TLC

(***************************************************************************)
(* Strings                                                                 *)
(***************************************************************************)

\* UTF-8 width of the characters the model uses.
Wide2 == {"U+00E9"}
Wide4 == {"U+1F30B", "U+1F516", "U+1F41B", "U+1F4AC", "U+1F693", "U+1F4F0",
          "U+1F477", "U+1F69B", "U+1F99D"}
Width(c) == IF c \in Wide4 THEN 4 ELSE IF c \in Wide2 THEN 2 ELSE 1

\* char::is_whitespace, for the characters the model uses.
IsWhitespace(c) == c \in {" ", "\n", "\t"}

RECURSIVE ByteLen(_)
\* String::len: the length in bytes.
ByteLen(s) == IF s = <<>> THEN 0 ELSE Width(Head(s)) + ByteLen(Tail(s))

\* str::is_char_boundary(n): n is 0, the length, or the offset of a character.
IsCharBoundary(s, n) == \E k \in 0..Len(s) : ByteLen(SubSeq(s, 1, k)) = n

\* The characters of s that end at or before byte offset n.
BytePrefix(s, n) ==
    LET ks == {k \in 0..Len(s) : ByteLen(SubSeq(s, 1, k)) <= n}
        k  == CHOOSE x \in ks : \A y \in ks : y <= x
    IN  SubSeq(s, 1, k)

\* The outcome of a computation that may panic.
Panic == [panic |-> TRUE, v |-> <<>>]
Returned(s) == [panic |-> FALSE, v |-> s]

\* String::truncate(n): no effect when n >= len; panics when n does not lie on
\* a character boundary.
Truncate(s, n) ==
    IF n >= ByteLen(s) THEN Returned(s)
    ELSE IF IsCharBoundary(s, n) THEN Returned(BytePrefix(s, n))
    ELSE Panic

RECURSIVE TrimEnd(_)
\* str::trim_end
TrimEnd(s) ==
    IF s # <<>> /\ IsWhitespace(s[Len(s)]) THEN TrimEnd(SubSeq(s, 1, Len(s) - 1))
    ELSE s

Upper == <<"A","B","C","D","E","F","G","H","I","J","K","L","M",
           "N","O","P","Q","R","S","T","U","V","W","X","Y","Z">>
Lower == <<"a","b","c","d","e","f","g","h","i","j","k","l","m",
           "n","o","p","q","r","s","t","u","v","w","x","y","z">>
\* str::to_lowercase
ToLowercase(s) ==
    [i \in 1..Len(s) |->
        IF \E j \in 1..26 : Upper[j] = s[i]
        THEN Lower[CHOOSE j \in 1..26 : Upper[j] = s[i]]
        ELSE s[i]]

Digits == <<"0","1","2","3","4","5","6","7","8","9">>
RECURSIVE Dec(_)
\* Display of an unsigned integer.
Dec(n) == IF n < 10 THEN <<Digits[n + 1]>> ELSE Dec(n \div 10) \o <<Digits[(n % 10) + 1]>>

\* str::split(sep).nth(0): the text before the first sep (always Some).
SplitFirst(s, sep) ==
    IF \E i \in 1..Len(s) : s[i] = sep
    THEN SubSeq(s, 1, (CHOOSE i \in 1..Len(s) : s[i] = sep /\ \A j \in 1..(i-1) : s[j] # sep) - 1)
    ELSE s

\* str::rsplit(sep).nth(0): the text after the last sep (always Some).
RSplitFirst(s, sep) ==
    IF \E i \in 1..Len(s) : s[i] = sep
    THEN SubSeq(s, (CHOOSE i \in 1..Len(s) : s[i] = sep /\ \A j \in (i+1)..Len(s) : s[j] # sep) + 1, Len(s))
    ELSE s

\* str::ends_with / str::starts_with of one character, str::contains.
EndsWith(s, c) == s # <<>> /\ s[Len(s)] = c
StartsWith(s, c) == s # <<>> /\ s[1] = c
Contains(s, sub) ==
    \E i \in 1..(Len(s) - Len(sub) + 1) : SubSeq(s, i, i + Len(sub) - 1) = sub

(***************************************************************************)
(* String literals of the source, as character sequences                   *)
(***************************************************************************)
S_pushed == <<" ","p","u","s","h","e","d"," ">>
S_commits_to == <<" ","c","o","m","m","i","t","s"," ","t","o"," ">>
S_tag == <<" ","t","a","g"," ","\"">>
S_quote_to == <<"\""," ","t","o"," ">>
S_pushed_word == <<"p","u","s","h","e","d">>
S_deleted_word == <<"d","e","l","e","t","e","d">>
S_invalid == <<"<","i","n","v","a","l","i","d",">">>
S_zero_sha == <<"0","0","0","0","0","0","0","0","0","0","0","0","0","0","0","0","0","0","0","0","0","0","0","0","0","0","0","0","0","0","0","0","0","0","0","0","0","0","0","0">>
S_on == <<" ","o","n"," ">>
S_for == <<" ","f","o","r"," ">>
S_build == <<"B","u","i","l","d"," ">>
S_colon == <<":"," ">>
S_open == <<" ","(">>
S_close == <<")">>
S_close_sp == <<")"," ">>
S_space == <<" ">>
S_ed_issue == <<"e","d"," ","i","s","s","u","e"," ","\"">>
S_ed_mr == <<"e","d"," ","m","e","r","g","e"," ","r","e","q","u","e","s","t"," ","\"">>
S_quote_open == <<"\""," ","(">>
S_pipeline == <<"P","i","p","e","l","i","n","e"," ">>
S_in == <<" ","i","n"," ">>
S_seconds == <<" ","s","e","c","o","n","d","s">>
S_d == <<"d">>
S_ed == <<"e","d">>
S_wiki_page == <<" ","w","i","k","i"," ","p","a","g","e"," ","\"">>
S_commented_on == <<"c","o","m","m","e","n","t","e","d"," ","o","n"," ">>
S_dots == <<".",".",".">>
K_push == <<"p","u","s","h">>
K_tag_push == <<"t","a","g","_","p","u","s","h">>
K_issue == <<"i","s","s","u","e">>
K_note == <<"n","o","t","e">>
K_merge_request == <<"m","e","r","g","e","_","r","e","q","u","e","s","t">>
K_wiki_page == <<"w","i","k","i","_","p","a","g","e">>
K_pipeline == <<"p","i","p","e","l","i","n","e">>
K_build == <<"b","u","i","l","d">>
K_no_object_kind == <<"n","o"," ","o","b","j","e","c","t"," ","k","i","n","d">>

\* The markers that open each kind's line.
M_push == <<"U+1F30B">>
M_tag_push == <<"U+1F516">>
M_issue == <<"U+1F41B">>
M_note == <<"U+1F4AC">>
M_merge_request == <<"U+1F693">>
M_wiki_page == <<"U+1F4F0">>
M_pipeline == <<"U+1F477">>
M_build == <<"U+1F69B">>

(***************************************************************************)
(* JSON values (serde_json::Value) and the schemas' strict decode          *)
(***************************************************************************)
JStr(s)   == [t |-> "str", v |-> s]
JNum(n)   == [t |-> "num", v |-> n]
JObj(f)   == [t |-> "obj", v |-> f]

\* One field of a #[derive(Deserialize)] struct: its JSON key, its Rust name,
\* its type, and whether it carries #[serde(default)].
F(key, name, ty, dflt) == [key |-> key, name |-> name, ty |-> ty, dflt |-> dflt]

\* The structs of gitlab.rs, lines 56-179.
Schema(ty) ==
    CASE ty = "PushEvent" ->
           {F("user_name", "user_name", "String", FALSE),
            F("total_commits_count", "total_commits_count", "u32", FALSE),
            F("repository", "repository", "Repository", FALSE)}
      [] ty = "TagPushEvent" ->
           {F("user_name", "user_name", "String", FALSE),
            F("before", "before", "String", FALSE),
            F("ref", "tag_ref", "String", FALSE),
            F("repository", "repository", "Repository", FALSE)}
      [] ty = "IssueEvent" ->
           {F("user", "user", "User", FALSE),
            F("object_attributes", "issue", "Issue", FALSE),
            F("repository", "repository", "Repository", FALSE)}
      [] ty = "CommentEvent" ->
           {F("user", "user", "User", FALSE),
            F("object_attributes", "comment", "Comment", FALSE)}
      [] ty = "MergeRequestEvent" ->
           {F("user", "user", "User", FALSE),
            F("object_attributes", "merge_request", "MergeRequest", FALSE),
            F("repository", "repository", "Repository", FALSE)}
      [] ty = "WikiEvent" ->
           {F("user", "user", "User", FALSE),
            F("object_attributes", "wiki_edit", "WikiEditEvent", FALSE)}
      [] ty = "PipelineEvent" ->
           {F("commit", "commit", "CommitString", FALSE),
            F("object_attributes", "pipeline", "Pipeline", FALSE),
            F("project", "project", "Project", FALSE)}
      [] ty = "BuildEvent" ->
           {F("commit", "commit", "CommitU32", FALSE),
            F("build_name", "build_name", "String", FALSE),
            F("build_stage", "build_stage", "String", FALSE),
            F("build_status", "build_status", "String", FALSE),
            F("repository", "repository", "Repository", FALSE)}
      [] ty = "User" -> {F("name", "name", "String", FALSE)}
      [] ty = "Issue" ->
           {F("title", "title", "String", FALSE), F("url", "url", "String", FALSE),
            F("action", "action", "String", FALSE)}
      [] ty = "Repository" ->
           {F("name", "name", "String", FALSE), F("homepage", "homepage", "String", FALSE)}
      [] ty = "Comment" ->
           {F("noteable_type", "noteable_type", "String", FALSE),
            F("url", "url", "String", FALSE), F("note", "note", "String", FALSE)}
      [] ty = "MergeRequest" ->
           {F("title", "title", "String", FALSE), F("action", "action", "String", FALSE),
            F("url", "url", "String", FALSE)}
      [] ty = "WikiEditEvent" ->
           {F("title", "title", "String", FALSE), F("action", "action", "String", FALSE),
            F("url", "url", "String", FALSE)}
      [] ty = "CommitString" ->
           {F("id", "id", "String", FALSE), F("sha", "sha", "String", TRUE),
            F("message", "message", "String", FALSE), F("url", "url", "String", TRUE)}
      [] ty = "CommitU32" ->
           {F("id", "id", "u32", FALSE), F("sha", "sha", "String", TRUE),
            F("message", "message", "String", FALSE), F("url", "url", "String", TRUE)}
      [] ty = "Pipeline" ->
           {F("status", "status", "String", FALSE), F("duration", "duration", "usize", TRUE)}
      [] ty = "Project" ->
           {F("name", "name", "String", FALSE), F("web_url", "web_url", "String", FALSE)}

\* Default::default() of a field type that carries #[serde(default)].
DefaultOf(ty) == IF ty = "String" THEN <<>> ELSE 0

DecodeErr == [ok |-> FALSE, val |-> <<>>]
Decoded(x) == [ok |-> TRUE, val |-> x]

RECURSIVE FromValue(_, _)
\* serde_json::from_value::<ty>(v).  A String takes a JSON string, u32 and
\* usize a non-negative integer (the model's integers are far below their
\* upper limits); a struct takes an object that holds every field without
\* #[serde(default)], each of its type, and ignores the other keys.
FromValue(ty, v) ==
    CASE ty = "String" -> IF v.t = "str" THEN Decoded(v.v) ELSE DecodeErr
      [] ty \in {"u32", "usize"} ->
           IF v.t = "num" /\ v.v >= 0 THEN Decoded(v.v) ELSE DecodeErr
      [] OTHER ->
           IF v.t # "obj" THEN DecodeErr
           ELSE LET fs == Schema(ty)
                    has(f) == f.key \in DOMAIN v.v
                    sub(f) == FromValue(f.ty, v.v[f.key])
                    good(f) == IF has(f) THEN sub(f).ok ELSE f.dflt
                    fld(n) == CHOOSE f \in fs : f.name = n
                IN  IF \A f \in fs : good(f)
                    THEN Decoded([n \in {f.name : f \in fs} |->
                                    IF has(fld(n)) THEN sub(fld(n)).val
                                    ELSE DefaultOf(fld(n).ty)])
                    ELSE DecodeErr

(***************************************************************************)
(* Rendering (the Display impls of gitlab.rs)                              *)
(*                                                                         *)
(* A fmt returns Returned(text), or Panic when a call inside it panics.    *)
(***************************************************************************)

RECURSIVE Cat(_)
\* write!(f, ...): the parts in order; a panicking part unwinds the whole call.
Cat(parts) ==
    IF parts = <<>> THEN Returned(<<>>)
    ELSE LET rest == Cat(Tail(parts))
         IN  IF Head(parts).panic \/ rest.panic THEN Panic
             ELSE Returned(Head(parts).v \o rest.v)

\* A literal piece of a format string, or a value that is already a string.
Lit(s) == Returned(s)

\* The number of leading bytes of a comment's note that are shown.
NCHARS == 40

\* The id of a commit is shown by its first SHORT_ID bytes.
SHORT_ID == 7

\* impl Display for User
FmtUser(u) == Lit(u.name)

\* impl Display for Repository
FmtRepository(r) == Cat(<<Lit(r.name), Lit(S_open), Lit(r.homepage), Lit(S_close)>>)

\* impl Display for Project
FmtProject(p) == Cat(<<Lit(p.name), Lit(S_open), Lit(p.web_url), Lit(S_close)>>)

\* impl Display for Issue
FmtIssue(i) ==
    Cat(<<Lit(i.action), Lit(S_ed_issue), Lit(i.title), Lit(S_quote_open), Lit(i.url), Lit(S_close)>>)

\* impl Display for MergeRequest
FmtMergeRequest(m) ==
    Cat(<<Lit(m.action), Lit(S_ed_mr), Lit(m.title), Lit(S_quote_open), Lit(m.url), Lit(S_close)>>)

\* What the mutant of FmtWikiEditEvent shows: "ed" after every action.
FmtWikiEditEventEd(w) ==
    Cat(<<Lit(w.action), Lit(S_ed), Lit(S_wiki_page), Lit(w.title),
          Lit(S_quote_open), Lit(w.url), Lit(S_close)>>)

\* impl Display for WikiEditEvent
FmtWikiEditEvent(w) ==
    LET ending == IF EndsWith(w.action, "e") THEN S_d ELSE S_ed
    IN  Cat(<<Lit(w.action), Lit(ending), Lit(S_wiki_page), Lit(w.title),
              Lit(S_quote_open), Lit(w.url), Lit(S_close)>>)

\* The msg a Comment shows for its note (fmt, lines 344-352): the note itself
\* when it is at most NCHARS bytes long, else its first NCHARS bytes, trimmed
\* at the end, and "...".
NoteMsg(note) ==
    IF ByteLen(note) > NCHARS
    THEN LET t == Truncate(note, NCHARS)
         IN  IF t.panic THEN Panic ELSE Returned(TrimEnd(t.v) \o S_dots)
    ELSE Returned(note)

\* impl Display for Comment
FmtComment(c) ==
    LET msg == NoteMsg(c.note)
    IN  IF msg.panic THEN Panic
        ELSE Cat(<<Lit(S_commented_on), Lit(ToLowercase(c.noteable_type)), Lit(S_space),
                   Lit(c.url), Lit(S_colon), msg>>)

\* impl Display for Commit<String>: the id's first 7 bytes, the message's
\* first line, the url.
FmtCommitString(c) ==
    LET first_line == SplitFirst(c.message, "\n")
        shortid    == Truncate(c.id, SHORT_ID)
    IN  Cat(<<shortid, Lit(S_colon), Lit(first_line), Lit(S_open), Lit(c.url), Lit(S_close)>>)

\* impl Display for Commit<u32>: the sha's first 7 bytes and the message's
\* first line.
FmtCommitU32(c) ==
    LET first_line == SplitFirst(c.message, "\n")
        shortid    == Truncate(c.sha, SHORT_ID)
    IN  Cat(<<shortid, Lit(S_colon), Lit(first_line)>>)

\* impl Display for Pipeline
FmtPipeline(p) ==
    LET duration == IF p.duration > 0 THEN S_in \o Dec(p.duration) \o S_seconds ELSE <<>>
    IN  Cat(<<Lit(S_pipeline), Lit(p.status), Lit(duration)>>)

\* impl Display for PushEvent
FmtPushEvent(e) ==
    Cat(<<Lit(M_push), Lit(S_space), Lit(e.user_name), Lit(S_pushed),
          Lit(Dec(e.total_commits_count)), Lit(S_commits_to), FmtRepository(e.repository)>>)

\* impl Display for TagPushEvent
FmtTagPushEvent(e) ==
    LET tag_name    == RSplitFirst(e.tag_ref, "/")
        action_text == IF e.before = S_zero_sha THEN S_pushed_word ELSE S_deleted_word
    IN  Cat(<<Lit(M_tag_push), Lit(S_space), Lit(e.user_name), Lit(S_space), Lit(action_text),
              Lit(S_tag), Lit(tag_name), Lit(S_quote_to), FmtRepository(e.repository)>>)

\* impl Display for IssueEvent
FmtIssueEvent(e) ==
    Cat(<<Lit(M_issue), Lit(S_space), FmtUser(e.user), Lit(S_space), FmtIssue(e.issue),
          Lit(S_on), FmtRepository(e.repository)>>)

\* impl Display for MergeRequestEvent
FmtMergeRequestEvent(e) ==
    Cat(<<Lit(M_merge_request), Lit(S_space), FmtUser(e.user), Lit(S_space),
          FmtMergeRequest(e.merge_request), Lit(S_on), FmtRepository(e.repository)>>)

\* impl Display for WikiEvent
FmtWikiEvent(e) ==
    Cat(<<Lit(M_wiki_page), Lit(S_space), FmtUser(e.user), Lit(S_space),
          FmtWikiEditEvent(e.wiki_edit)>>)

\* impl Display for CommentEvent
FmtCommentEvent(e) ==
    Cat(<<Lit(M_note), Lit(S_space), FmtUser(e.user), Lit(S_space), FmtComment(e.comment)>>)

\* impl Display for PipelineEvent
FmtPipelineEvent(e) ==
    Cat(<<Lit(M_pipeline), Lit(S_space), FmtPipeline(e.pipeline), Lit(S_on),
          FmtCommitString(e.commit), Lit(S_for), FmtProject(e.project)>>)

\* impl Display for BuildEvent
FmtBuildEvent(e) ==
    Cat(<<Lit(M_build), Lit(S_space), Lit(S_build), Lit(e.build_name), Lit(S_open),
          Lit(e.build_stage), Lit(S_close_sp), Lit(e.build_status), Lit(S_on),
          FmtCommitU32(e.commit), Lit(S_for), FmtRepository(e.repository)>>)

\* T::to_string for the event type ty.
Display(ty, e) ==
    CASE ty = "PushEvent"         -> FmtPushEvent(e)
      [] ty = "TagPushEvent"      -> FmtTagPushEvent(e)
      [] ty = "IssueEvent"        -> FmtIssueEvent(e)
      [] ty = "CommentEvent"      -> FmtCommentEvent(e)
      [] ty = "MergeRequestEvent" -> FmtMergeRequestEvent(e)
      [] ty = "WikiEvent"         -> FmtWikiEvent(e)
      [] ty = "PipelineEvent"     -> FmtPipelineEvent(e)
      [] ty = "BuildEvent"        -> FmtBuildEvent(e)

(***************************************************************************)
(* dispatch                                                                *)
(***************************************************************************)
\* Option<String>
None == [some |-> FALSE, v |-> <<>>]
Some(s) == [some |-> TRUE, v |-> s]

\* The event type each known discriminant decodes into (dispatch's arms).
KnownKinds == {K_push, K_tag_push, K_issue, K_note, K_merge_request, K_wiki_page,
               K_pipeline, K_build}
EventType(kind) ==
    CASE kind = K_push          -> "PushEvent"
      [] kind = K_tag_push      -> "TagPushEvent"
      [] kind = K_issue         -> "IssueEvent"
      [] kind = K_note          -> "CommentEvent"
      [] kind = K_merge_request -> "MergeRequestEvent"
      [] kind = K_wiki_page     -> "WikiEvent"
      [] kind = K_pipeline      -> "PipelineEvent"
      [] kind = K_build         -> "BuildEvent"

\* to_string(res, logger): Some(line) of a decoded event; a decode error is
\* logged and None returned.  [panic, v: Option<String>]
to_string(ty, res) ==
    IF res.ok
    THEN LET s == Display(ty, res.val)
         IN  IF s.panic THEN [panic |-> TRUE, v |-> None]
             ELSE [panic |-> FALSE, v |-> Some(s.v)]
    ELSE [panic |-> FALSE, v |-> None]

\* dispatch(kind, data, logger): an unknown kind is logged and None returned.
dispatch(kind, data) ==
    IF kind \in KnownKinds
    THEN to_string(EventType(kind), FromValue(EventType(kind), data))
    ELSE [panic |-> FALSE, v |-> None]

(***************************************************************************)
(* Inputs: webhook bodies                                                  *)
(***************************************************************************)
T_al == <<"a","l">>
T_repo == <<"r","e","p","o">>
T_url == <<"h","t","t","p",":","/","/","g","/","r">>
T_title == <<"F","i","x">>
T_open == <<"o","p","e","n">>
T_create == <<"c","r","e","a","t","e">>
T_MergeRequest == <<"M","e","r","g","e","R","e","q","u","e","s","t">>
T_ref == <<"r","e","f","s","/","t","a","g","s","/","v","1">>
T_sha == <<"d","a","1","5","6","0","8","8","6","d","4","f">>
T_msg == <<"f","i","x"," ","i","t","\n","m","o","r","e">>
T_success == <<"s","u","c","c","e","s","s">>
T_test == <<"t","e","s","t">>
T_foo == <<"f","o","o">>

\* A string of n copies of the character c.
Rep(c, n) == [i \in 1..n |-> c]

J_repository == JObj([name |-> JStr(T_repo), homepage |-> JStr(T_url)])
J_user == JObj([name |-> JStr(T_al)])

\* A well-formed payload of each known kind, shaped like the fixtures the
\* tests read (test/push.json, ...), without its object_kind.
Fixture(kind) ==
    CASE kind = K_push ->
           [user_name |-> JStr(T_al), total_commits_count |-> JNum(4),
            repository |-> J_repository]
      [] kind = K_tag_push ->
           [user_name |-> JStr(T_al), before |-> JStr(S_zero_sha), ref |-> JStr(T_ref),
            repository |-> J_repository]
      [] kind = K_issue ->
           [user |-> J_user, repository |-> J_repository,
            object_attributes |->
                JObj([title |-> JStr(T_title), url |-> JStr(T_url), action |-> JStr(T_open)])]
      [] kind = K_note ->
           [user |-> J_user,
            object_attributes |->
                JObj([noteable_type |-> JStr(T_MergeRequest), url |-> JStr(T_url),
                      note |-> JStr(T_title)])]
      [] kind = K_merge_request ->
           [user |-> J_user, repository |-> J_repository,
            object_attributes |->
                JObj([title |-> JStr(T_title), url |-> JStr(T_url), action |-> JStr(T_open)])]
      [] kind = K_wiki_page ->
           [user |-> J_user,
            object_attributes |->
                JObj([title |-> JStr(T_title), url |-> JStr(T_url), action |-> JStr(T_create)])]
      [] kind = K_pipeline ->
           [commit |-> JObj([id |-> JStr(T_sha), message |-> JStr(T_msg), url |-> JStr(T_url)]),
            object_attributes |-> JObj([status |-> JStr(T_success), duration |-> JNum(63)]),
            project |-> JObj([name |-> JStr(T_repo), web_url |-> JStr(T_url)])]
      [] kind = K_build ->
           [commit |-> JObj([id |-> JNum(1), sha |-> JStr(T_sha), message |-> JStr(T_msg)]),
            build_name |-> JStr(T_test), build_stage |-> JStr(T_test),
            build_status |-> JStr(T_success), repository |-> J_repository]

\* The function f without the key k, with the key k set to v.
Without(f, k) == [x \in (DOMAIN f) \ {k} |-> f[x]]
With(f, k, v) == [x \in (DOMAIN f) \cup {k} |-> IF x = k THEN v ELSE f[x]]

\* The discriminants a body may carry besides the known ones.
UnknownKinds == {<<>>, T_foo, K_no_object_kind}

\* A body is described by a small record:
\*   [fam |-> "io_error"]           the body stream fails
\*   [fam |-> "bad_json"]           the bytes are not JSON
\*   [fam |-> "fixture", hasKind, kind, of, drop]
\*        the fixture of kind `of` with the key `drop` removed ("" for none),
\*        object_kind set to `kind` (absent when ~hasKind)
\*   [fam |-> "note", a, b, c, d]   a note event whose text is a letters,
\*        b blanks, c two-byte letters and d letters
\*   [fam |-> "strict", kind, path, absent]
\*        the fixture of the kind with the field at the path absent, or
\*        (~absent) null, which is the wrong type for every field
\*   [fam |-> "wiki", action]       a wiki_page event with that action
\*   [fam |-> "tag", ref, before]   a tag_push event with that ref and before
\*   [fam |-> "commit", kind, p, q] a pipeline or build whose commit id / sha
\*        is p letters, q two-byte letters and 4 letters
NoteText(a, b, c, d) == Rep("x", a) \o Rep(" ", b) \o Rep("U+00E9", c) \o Rep("y", d)
IdText(p, q) == Rep("a", p) \o Rep("U+00E9", q) \o Rep("b", 4)

\* The fields f without what lies at the path (one key, or a key inside the
\* object at a key), and with the value v put there.
DropAt(f, path) ==
    IF Len(path) = 1 THEN Without(f, path[1])
    ELSE IF path[1] \in DOMAIN f /\ f[path[1]].t = "obj"
         THEN With(f, path[1], JObj(Without(f[path[1]].v, path[2])))
         ELSE f
SetAt(f, path, v) ==
    IF Len(path) = 1 THEN With(f, path[1], v)
    ELSE IF path[1] \in DOMAIN f /\ f[path[1]].t = "obj"
         THEN With(f, path[1], JObj(With(f[path[1]].v, path[2], v)))
         ELSE f

\* The paths of the fields each kind's payload is required to hold.
RequiredFields(kind) ==
    LET oa(k) == <<"object_attributes", k>>
    IN  CASE kind = K_push ->
               {<<"user_name">>, <<"total_commits_count">>, <<"repository", "name">>,
                <<"repository", "homepage">>}
          [] kind = K_tag_push -> {<<"user_name">>, <<"before">>, <<"ref">>}
          [] kind \in {K_issue, K_merge_request} ->
               {<<"user", "name">>, oa("title"), oa("url"), oa("action"), <<"repository">>}
          [] kind = K_note ->
               {<<"user", "name">>, oa("noteable_type"), oa("url"), oa("note"),
                <<"repository">>}
          [] kind = K_wiki_page -> {<<"user", "name">>, oa("title"), oa("url"), oa("action")}
          [] kind = K_pipeline ->
               {oa("status"), <<"commit", "id">>, <<"project", "name">>, <<"project", "web_url">>}
          [] kind = K_build ->
               {<<"build_name">>, <<"build_stage">>, <<"build_status">>, <<"commit", "sha">>,
                <<"repository">>}

\* The refs and the before values of the tag_push inputs: a ref with and
\* without '/', one that ends in '/', the empty one; the all-zero sha, another
\* sha, and 39 zeros.
TagRefs == {T_ref, <<"v", "1">>, <<"r", "e", "f", "s", "/">>, <<>>}
TagBefores == {S_zero_sha, T_sha, Rep("0", Len(S_zero_sha) - 1)}

\* The actions of the wiki_page inputs: "create", "edit", "delete", "update"
\* and the empty one.
WikiActions ==
    {T_create, <<"e","d","i","t">>, <<"d","e","l","e","t","e">>, <<"u","p","d","a","t","e">>, <<>>}

\* The JSON document of a body that parses.
Json(b) ==
    CASE b.fam = "fixture" ->
           LET f == IF b.drop = "" THEN Fixture(b.of) ELSE Without(Fixture(b.of), b.drop)
           IN  JObj(IF b.hasKind THEN With(f, "object_kind", JStr(b.kind)) ELSE f)
      [] b.fam = "note" ->
           JObj([object_kind |-> JStr(K_note), user |-> J_user,
                 object_attributes |->
                     JObj([noteable_type |-> JStr(T_MergeRequest), url |-> JStr(T_url),
                           note |-> JStr(NoteText(b.a, b.b, b.c, b.d))])])
      [] b.fam = "strict" ->
           LET f == With(Fixture(b.kind), "object_kind", JStr(b.kind))
           IN  JObj(IF b.absent THEN DropAt(f, b.path) ELSE SetAt(f, b.path, [t |-> "null"]))
      [] b.fam = "wiki" ->
           JObj([object_kind |-> JStr(K_wiki_page), user |-> J_user,
                 object_attributes |->
                     JObj([title |-> JStr(T_title), url |-> JStr(T_url),
                           action |-> JStr(b.action)])])
      [] b.fam = "tag" ->
           JObj([object_kind |-> JStr(K_tag_push), user_name |-> JStr(T_al),
                 before |-> JStr(b.before), ref |-> JStr(b.ref),
                 repository |-> J_repository])
      [] b.fam = "commit" ->
           JObj(With(With(Fixture(b.kind), "object_kind", JStr(b.kind)), "commit",
                     JObj([id |-> IF b.kind = K_pipeline THEN JStr(IdText(b.p, b.q)) ELSE JNum(1),
                           sha |-> JStr(IdText(b.p, b.q)), message |-> JStr(T_msg)])))

\* serde_json::from_slice(&vb) succeeds.
ParsesAsJson(b) == b.fam \notin {"io_error", "bad_json"}

\* json["object_kind"].as_str().unwrap_or("no object kind")
object_kind(json) ==
    IF json.t = "obj" /\ "object_kind" \in DOMAIN json.v /\ json.v["object_kind"].t = "str"
    THEN json.v["object_kind"].v
    ELSE K_no_object_kind

\* handle_gitlab's call of dispatch on a parsed body.
DispatchJson(json) == dispatch(object_kind(json), json)

(***************************************************************************)
(* split_channel_keys (irc.rs, lines 63-84)                                *)
(***************************************************************************)

\* What the mutant of Split returns: the text unsplit.
SplitWhole(s, sep) == <<s>>

RECURSIVE Split(_, _)
\* str::split(sep), collected: the pieces between the separators, in order.
Split(s, sep) ==
    IF \E i \in 1..Len(s) : s[i] = sep
    THEN LET head == SplitFirst(s, sep)
         IN  <<head>> \o Split(SubSeq(s, Len(head) + 2, Len(s)), sep)
    ELSE <<s>>

RECURSIVE KeyPairs(_)
\* The filter_map of lines 69-81: for each entry, parts.nth(0) and then
\* parts.nth(0) again, which is the second piece; an entry without a second
\* piece gives nothing.
KeyPairs(channels) ==
    IF channels = <<>> THEN <<>>
    ELSE LET parts == Split(Head(channels), ":")
         IN  (IF Len(parts) >= 2 THEN <<(<<parts[1], parts[2]>>)>> ELSE <<>>)
             \o KeyPairs(Tail(channels))

RECURSIVE CollectMap(_)
\* collect() into a HashMap: the pairs are inserted in order, and a later
\* pair replaces an earlier one with the same key.
CollectMap(pairs) ==
    IF pairs = <<>> THEN <<>>
    ELSE LET last_pair == pairs[Len(pairs)]
         IN  With(CollectMap(SubSeq(pairs, 1, Len(pairs) - 1)), last_pair[1], last_pair[2])

\* split_channel_keys(channels): (the first piece of every entry, the map).
split_channel_keys(channels) ==
    [chans |-> [i \in 1..Len(channels) |-> Split(channels[i], ":")[1]],
     keys  |-> CollectMap(KeyPairs(channels))]

(***************************************************************************)
(* The running program                                                     *)
(*                                                                         *)
(* main calls irc::init, which spawns the background thread and blocks in  *)
(* rx.recv(); the thread sets the session up, registers the handler and    *)
(* runs the event loop; once init has returned, main serves webhook        *)
(* requests, each an invocation of handle_gitlab.                          *)
(***************************************************************************)

\* Bounds of the model.
NumRequests == 2
MaxInbound == 2

\* HTTP status codes.
OK == 200
BAD_REQUEST == 400
INTERNAL_SERVER_ERROR == 500

Requests == 1..NumRequests

\* The channels of the session (irc.channels of the configuration).
C_a == <<"#", "a">>
C_b == <<"#", "b">>
Channels == {C_a, C_b}

\* What client.list_channels() may return to one call of write: None, or the
\* channels joined at that moment, in the order the library lists them.
ListChannels ==
    {[some |-> FALSE, v |-> <<>>]}
    \cup {[some |-> TRUE, v |-> s] : s \in {<<>>, <<C_a>>, <<C_b>>, <<C_a, C_b>>, <<C_b, C_a>>}}

\* An optional token: the X-Gitlab-Token header, the gitlab.token setting.
NoTok == [some |-> FALSE, tok |-> ""]
Tok(t) == [some |-> TRUE, tok |-> t]
Headers == {NoTok, Tok("TEST_TOKEN"), Tok("WRONG")}
Configs == {NoTok, Tok("TEST_TOKEN")}

\* The bodies the requests of the model carry.
FixtureBody(hasKind, kind, of, drop) ==
    [fam |-> "fixture", hasKind |-> hasKind, kind |-> kind, of |-> of, drop |-> drop]
Bodies ==
    {[fam |-> "io_error"], [fam |-> "bad_json"],
     FixtureBody(TRUE, K_push, K_push, ""),
     FixtureBody(TRUE, K_push, K_push, "user_name"),
     FixtureBody(TRUE, T_foo, K_push, ""),
     FixtureBody(TRUE, <<>>, K_push, ""),
     FixtureBody(FALSE, <<>>, K_push, "")}

\* The inbound protocol messages the handler tells apart.  A RPL_NAMREPLY
\* carries its arguments; the others carry nothing the handler reads.
A_local == <<"&", "l">>
Inbound ==
    {[cmd |-> "RPL_WELCOME", args |-> <<>>], [cmd |-> "PING", args |-> <<>>]}
    \cup {[cmd |-> "RPL_NAMREPLY", args |-> <<<<"r", "c">>, <<"=">>, c>>] : c \in Channels \cup {A_local}}

VARIABLES
    cfgToken,     \* the configured gitlab.token
    mainPc,       \* where main is: "start", "init_recv", "init_got", "serving", "exited"
    bgPc,         \* where the background thread is
    handled,      \* the number of inbound messages the handler was called with
    welcomes,     \* the number of RPL_WELCOME among them
    published,    \* the number of tx.send calls that put a handle in the channel
    chanQ,        \* the handles waiting in the mpsc channel
    rxAlive,      \* rx has not been dropped
    txAlive,      \* tx has not been dropped
    greeting,     \* the channel of the greeting being sent, <<>> when none
    delivered,    \* per channel, who sent each message it received, in order
    lockHolder,   \* the request that holds the writer's Mutex, 0 when free
    poisoned,     \* the writer's Mutex is poisoned
    req,          \* per request in progress: pc, hdr, body, dispatched, msg, snap, sends, writes
    last,         \* the request answered last: its id, what it carried and what it got
    evIn,         \* rendering alone: the body dispatched
    evOut,        \* rendering alone: what dispatch returned
    evAgain,      \* rendering alone: the note rule applied to the rendered note
    evPc          \* rendering alone: "off", "input", "dispatched", "reapplied"

sysVars == <<cfgToken, mainPc, bgPc, handled, welcomes, published, chanQ, rxAlive, txAlive,
             greeting, delivered, lockHolder, poisoned, req, last>>
evVars == <<evIn, evOut, evAgain, evPc>>
vars == <<cfgToken, mainPc, bgPc, handled, welcomes, published, chanQ, rxAlive, txAlive,
          greeting, delivered, lockHolder, poisoned, req, last, evIn, evOut, evAgain, evPc>>

NoBody == [fam |-> "none"]
NoResp == [status |-> 0, body |-> "none"]
Resp(status, body) == [status |-> status, body |-> body]
NoResult == [state |-> "none", chan |-> <<>>, cause |-> ""]
WriteOk == [state |-> "ok", chan |-> <<>>, cause |-> ""]
\* "failed to send IRC message to channel {chan}: {cause}"
WriteErr(chan, cause) == [state |-> "err", chan |-> chan, cause |-> cause]
\* "failed to obtain irc writer lock"
LockErr == [state |-> "lock_err", chan |-> <<>>, cause |-> "poisoned"]

\* A request that has not arrived, and one that has been answered: the
\* handler's state is gone with its response.
IdleReq ==
    [pc |-> "idle", hdr |-> NoTok, body |-> NoBody, msg |-> <<>>, snap |-> <<>>,
     sends |-> <<>>, writes |-> 0, dispatched |-> FALSE]
ClosedReq == [IdleReq EXCEPT !.pc = "closed"]

\* The exchange of request q of id r that ended with `result` of its write (if
\* any) and the response resp.
Exchange(r, q, result, resp) ==
    [id |-> r, hdr |-> q.hdr, body |-> q.body, dispatched |-> q.dispatched, msg |-> q.msg,
     snap |-> q.snap, sends |-> q.sends, writes |-> q.writes, result |-> result,
     resp |-> resp]
NoExchange == Exchange(0, IdleReq, NoResult, NoResp)

SysInit ==
    /\ cfgToken \in Configs
    /\ mainPc = "start"
    /\ bgPc = "unspawned"
    /\ handled = 0
    /\ welcomes = 0
    /\ published = 0
    /\ chanQ = 0
    /\ rxAlive = TRUE
    /\ txAlive = TRUE
    /\ greeting = <<>>
    /\ delivered = [c \in Channels |-> <<>>]
    /\ lockHolder = 0
    /\ poisoned = FALSE
    /\ req = [r \in Requests |-> IdleReq]
    /\ last = NoExchange

EvOff ==
    /\ evIn = NoBody
    /\ evOut = [panic |-> FALSE, v |-> None]
    /\ evAgain = Returned(<<>>)
    /\ evPc = "off"

Init == SysInit /\ EvOff

(***************************************************************************)
(* irc::init and the background thread (irc.rs, lines 86-149)              *)
(***************************************************************************)

\* init, lines 87-94: the channel is made and the irc settings are parsed; a
\* parse error returns Err before any thread exists, and main returns it.
InitStart ==
    /\ mainPc = "start"
    /\ \E parsed \in BOOLEAN :
          IF parsed
          THEN /\ mainPc' = "init_recv"
               /\ bgPc' = "reactor"
               /\ UNCHANGED <<rxAlive, txAlive>>
          ELSE /\ mainPc' = "exited"
               /\ rxAlive' = FALSE
               /\ txAlive' = FALSE
               /\ UNCHANGED bgPc
    /\ UNCHANGED <<cfgToken, handled, welcomes, published, chanQ, greeting, delivered,
                   lockHolder, poisoned, req, last>>
    /\ UNCHANGED evVars

\* The thread's steps before the loop, lines 95-103: IrcReactor::new,
\* prepare_client_and_connect, identify.  Each may fail; `?` then ends the
\* thread, which drops tx.
BgSetup ==
    /\ mainPc # "exited"
    /\ bgPc \in {"reactor", "connect", "identify"}
    /\ \E ok \in BOOLEAN :
          IF ok
          THEN /\ bgPc' = CASE bgPc = "reactor" -> "connect"
                            [] bgPc = "connect" -> "identify"
                            [] bgPc = "identify" -> "run"
               /\ UNCHANGED txAlive
          ELSE /\ bgPc' = "failed_setup"
               /\ txAlive' = FALSE
    /\ UNCHANGED <<cfgToken, mainPc, handled, welcomes, published, chanQ, rxAlive, greeting,
                   delivered, lockHolder, poisoned, req, last>>
    /\ UNCHANGED evVars

\* The first argument of a RPL_NAMREPLY that starts with '#', if any.
GreetTarget(args) ==
    IF \E i \in 1..Len(args) : StartsWith(args[i], "#")
    THEN <<args[CHOOSE i \in 1..Len(args) :
                    StartsWith(args[i], "#") /\ \A j \in 1..(i-1) : ~StartsWith(args[j], "#")]>>
    ELSE <<>>

\* The arm of the handler's match that hands the session over, lines 112-118.
IsWelcomeAny(m) == m.cmd \in {"RPL_WELCOME", "PING"}
IsWelcome(m) == m.cmd = "RPL_WELCOME"

\* The handler, lines 106-134, called by the loop with one inbound message.
\*   RPL_WELCOME   tx.send(client.clone()).unwrap(): the send puts a handle in
\*                 the channel while rx lives and fails once rx is dropped,
\*                 and unwrap then panics, which ends the thread.
\*   RPL_NAMREPLY  the greeting is sent to the first '#' argument (the send
\*                 is in flight until BgGreetEnd).
Handle(m) ==
    /\ mainPc # "exited"
    /\ bgPc = "run"
    /\ handled < MaxInbound
    /\ handled' = handled + 1
    /\ CASE IsWelcome(m) ->
              /\ welcomes' = IF m.cmd = "RPL_WELCOME" THEN welcomes + 1 ELSE welcomes
              /\ IF rxAlive
                 THEN /\ chanQ' = chanQ + 1
                      /\ published' = published + 1
                      /\ UNCHANGED <<bgPc, txAlive>>
                 ELSE /\ bgPc' = "panicked"
                      /\ txAlive' = FALSE
                      /\ UNCHANGED <<chanQ, published>>
              /\ UNCHANGED greeting
         [] m.cmd = "RPL_NAMREPLY" ->
              /\ greeting' = GreetTarget(m.args)
              /\ bgPc' = IF GreetTarget(m.args) # <<>> THEN "greeting" ELSE "run"
              /\ UNCHANGED <<welcomes, chanQ, published, txAlive>>
         [] OTHER ->
              UNCHANGED <<welcomes, chanQ, published, txAlive, bgPc, greeting>>
    /\ UNCHANGED <<cfgToken, mainPc, rxAlive, delivered, lockHolder, poisoned, req, last>>
    /\ UNCHANGED evVars

BgHandle == \E m \in Inbound : Handle(m)

\* The greeting's send_privmsg returns, lines 125-128.  An error leaves the
\* handler by `?`; the loop then ends and the thread returns Err.
BgGreetEnd ==
    /\ mainPc # "exited"
    /\ bgPc = "greeting"
    /\ \E ok \in BOOLEAN :
          IF ok
          THEN /\ bgPc' = "run"
               /\ delivered' = IF greeting[1] \in Channels
                               THEN [delivered EXCEPT ![greeting[1]] = Append(@, 0)]
                               ELSE delivered
               /\ UNCHANGED txAlive
          ELSE /\ bgPc' = "failed_loop"
               /\ txAlive' = FALSE
               /\ UNCHANGED delivered
    /\ greeting' = <<>>
    /\ UNCHANGED <<cfgToken, mainPc, handled, welcomes, published, chanQ, rxAlive, lockHolder,
                   poisoned, req, last>>
    /\ UNCHANGED evVars

\* reactor.run() returns, lines 137-141: the connection ended or failed.
BgLoopEnd ==
    /\ mainPc # "exited"
    /\ bgPc = "run"
    /\ bgPc' = "ended"
    /\ txAlive' = FALSE
    /\ UNCHANGED <<cfgToken, mainPc, handled, welcomes, published, chanQ, rxAlive, greeting,
                   delivered, lockHolder, poisoned, req, last>>
    /\ UNCHANGED evVars

\* rx.recv(), lines 144-146: returns a queued handle; returns Err once the
\* channel is empty and tx is dropped, and main returns that Err (main.rs
\* line 246); blocks otherwise.
RecvNeverDisconnected == FALSE
RecvDisconnected == ~txAlive
InitRecv ==
    /\ mainPc = "init_recv"
    /\ IF chanQ > 0
       THEN /\ chanQ' = chanQ - 1
            /\ mainPc' = "init_got"
            /\ UNCHANGED rxAlive
       ELSE /\ RecvDisconnected
            /\ mainPc' = "exited"
            /\ rxAlive' = FALSE
            /\ UNCHANGED chanQ
    /\ UNCHANGED <<cfgToken, bgPc, handled, welcomes, published, txAlive, greeting, delivered,
                   lockHolder, poisoned, req, last>>
    /\ UNCHANGED evVars

\* init returns Ok(c), lines 147-149, which drops rx and what it still holds;
\* main wraps the handle in the writer and starts the listener.
InitReturn ==
    /\ mainPc = "init_got"
    /\ mainPc' = "serving"
    /\ rxAlive' = FALSE
    /\ chanQ' = 0
    /\ UNCHANGED <<cfgToken, bgPc, handled, welcomes, published, txAlive, greeting, delivered,
                   lockHolder, poisoned, req, last>>
    /\ UNCHANGED evVars

(***************************************************************************)
(* handle_gitlab (main.rs, lines 64-157)                                   *)
(***************************************************************************)

\* compare_gitlab_token: "ok", or the error it returns.
compare_gitlab_token(hdr, cfg) ==
    IF hdr.some
    THEN IF ~cfg.some THEN "no gitlab.token in cfg"
         ELSE IF cfg.tok = hdr.tok THEN "ok"
         ELSE "mismatching gitlab token"
    ELSE "no gitlab token in headers"

\* handle_gitlab up to the write, lines 87-142, for a request with header hdr
\* and body `body` under the configured token cfg: the response it ends with,
\* or NoResp when it goes on to write.  The body is read and parsed as JSON
\* first (a failure is a handler error, which gotham answers with 500), then
\* the token is compared (400, empty body), then the event is dispatched.
\* dispatch returns an Option<String> and handle_gitlab matches on Ok(m) /
\* Err(e): Some(m) takes the arm Ok(m), which writes, and None, which carries
\* no line to write, takes the arm Err(e), which answers 400 with a JSON error
\* body.  A panic inside dispatch unwinds the request.
EarlyResponse(hdr, body, cfg) ==
    IF ~ParsesAsJson(body) THEN Resp(INTERNAL_SERVER_ERROR, "handler_error")
    ELSE IF compare_gitlab_token(hdr, cfg) # "ok" THEN Resp(BAD_REQUEST, "empty")
    ELSE LET msg == DispatchJson(Json(body))
         IN  IF msg.panic THEN Resp(INTERNAL_SERVER_ERROR, "panic")
             ELSE IF msg.v.some THEN NoResp
             ELSE Resp(BAD_REQUEST, "json_error")

\* dispatch is called for a body that parsed under a token that matched.
Dispatches(hdr, body, cfg) ==
    ParsesAsJson(body) /\ compare_gitlab_token(hdr, cfg) = "ok"

\* A request arrives once the listener runs (requests are numbered in the
\* order they arrive) and runs up to its response or to the writer's lock.
ReqReceive(r) ==
    /\ mainPc = "serving"
    /\ req[r].pc = "idle"
    /\ IF r = 1 THEN TRUE ELSE req[r - 1].pc # "idle"
    /\ \E hdr \in Headers, body \in Bodies :
          LET q    == [IdleReq EXCEPT !.hdr = hdr, !.body = body,
                                      !.dispatched = Dispatches(hdr, body, cfgToken)]
              resp == EarlyResponse(hdr, body, cfgToken)
          IN  IF resp = NoResp
              THEN /\ req' = [req EXCEPT ![r] = [q EXCEPT !.pc = "lock",
                                                            !.msg = DispatchJson(Json(body)).v.v]]
                   /\ UNCHANGED last
              ELSE /\ req' = [req EXCEPT ![r] = ClosedReq]
                   /\ last' = Exchange(r, q, NoResult, resp)
    /\ UNCHANGED <<cfgToken, mainPc, bgPc, handled, welcomes, published, chanQ, rxAlive,
                   txAlive, greeting, delivered, lockHolder, poisoned>>
    /\ UNCHANGED evVars

\* Mutex::lock returns the guard only while no other request holds it.
MutexIgnored == TRUE
MutexFree == lockHolder = 0

\* The response once write has returned `result`, lines 118-126 and 150-151:
\* an Err is logged and the empty 200 follows in either case.
AfterWritePropagates(result) ==
    IF result.state = "ok" THEN Resp(OK, "empty")
    ELSE Resp(INTERNAL_SERVER_ERROR, "handler_error")
AfterWrite(result) == Resp(OK, "empty")

\* write's loop after the send to channel number n of snap returned (ok or
\* not), irc.rs lines 32-43: the first error is returned at once with the
\* channel and the cause, Ok is returned after the last channel, and the loop
\* goes on (NoResult) otherwise.
WriteStepBestEffort(snap, n, ok) ==
    IF n = Len(snap) THEN WriteOk ELSE NoResult
WriteStep(snap, n, ok) ==
    IF ~ok THEN WriteErr(snap[n], "io")
    ELSE IF n = Len(snap) THEN WriteOk
    ELSE NoResult

\* irc.lock() and the entry of write, lines 118-122 and irc.rs lines 30-32.
\* A poisoned lock is an Err that is logged; else the request waits for the
\* Mutex, calls write once, and write reads the channel list.  With no
\* channel to send to, write returns Ok at once.  Once write has returned the
\* guard is dropped with the closure that called it, an error is logged, and
\* the response is the empty 200 of lines 150-151.
ReqLock(r) ==
    /\ req[r].pc = "lock"
    /\ IF poisoned
       THEN /\ req' = [req EXCEPT ![r] = ClosedReq]
            /\ last' = Exchange(r, req[r], LockErr, AfterWrite(LockErr))
            /\ UNCHANGED lockHolder
       ELSE /\ MutexFree
            /\ \E chans \in ListChannels :
                  LET snap == IF chans.some THEN chans.v ELSE <<>>
                      q    == [req[r] EXCEPT !.writes = @ + 1, !.snap = snap]
                  IN  IF snap = <<>>
                      THEN /\ req' = [req EXCEPT ![r] = ClosedReq]
                           /\ last' = Exchange(r, q, WriteOk, AfterWrite(WriteOk))
                           /\ UNCHANGED lockHolder
                      ELSE /\ req' = [req EXCEPT ![r] = [q EXCEPT !.pc = "sending"]]
                           /\ lockHolder' = r
                           /\ UNCHANGED last
    /\ UNCHANGED <<cfgToken, mainPc, bgPc, handled, welcomes, published, chanQ, rxAlive,
                   txAlive, greeting, delivered, poisoned>>
    /\ UNCHANGED evVars

\* One send_privmsg of write's loop returns, irc.rs lines 32-40.  After a
\* success the loop goes on with the next channel and returns Ok after the
\* last; the first error is returned at once, naming the channel and the
\* cause.  write's return releases the Mutex, and the request is answered
\* with the empty 200 whatever write returned.
ReqSendEnd(r) ==
    /\ req[r].pc = "sending"
    /\ \E ok \in BOOLEAN :
          LET q      == req[r]
              n      == Len(q.sends) + 1
              chan   == q.snap[n]
              sent   == [q EXCEPT !.sends = Append(@, [chan |-> chan, ok |-> ok])]
              result == WriteStep(q.snap, n, ok)
          IN  /\ delivered' = IF ok THEN [delivered EXCEPT ![chan] = Append(@, r)]
                              ELSE delivered
              /\ IF result = NoResult
                 THEN /\ req' = [req EXCEPT ![r] = sent]
                      /\ UNCHANGED <<lockHolder, last>>
                 ELSE /\ req' = [req EXCEPT ![r] = ClosedReq]
                      /\ last' = Exchange(r, sent, result, AfterWrite(result))
                      /\ lockHolder' = 0
    /\ UNCHANGED <<cfgToken, mainPc, bgPc, handled, welcomes, published, chanQ, rxAlive,
                   txAlive, greeting, poisoned>>
    /\ UNCHANGED evVars

Next ==
    \/ InitStart
    \/ BgSetup
    \/ BgHandle
    \/ BgGreetEnd
    \/ BgLoopEnd
    \/ InitRecv
    \/ InitReturn
    \/ \E r \in Requests : ReqReceive(r)
    \/ \E r \in Requests : ReqLock(r)
    \/ \E r \in Requests : ReqSendEnd(r)

Spec == Init /\ [][Next]_vars

\* irc::init alone, up to its return: main blocked in rx.recv() is a thread of
\* its own, so a recv that can return does return.
InitNext ==
    \/ InitStart
    \/ BgSetup
    \/ BgHandle
    \/ BgGreetEnd
    \/ BgLoopEnd
    \/ InitRecv
    \/ InitReturn

SpecInit == Init /\ [][InitNext]_vars /\ WF_vars(InitRecv)

(***************************************************************************)
(* Rendering alone: dispatch applied to one body, and the note rule        *)
(* applied again to the note it rendered                                   *)
(***************************************************************************)

\* Bounds of the inputs: blanks and trailing letters of a note, two-byte
\* letters of a note or an id.
MaxPad == 3
MaxWide == 2
\* The longest irc.channels list.
MaxChans == 2

\* The entries an irc.channels list is made of: a name, a name and a key
\* (also an empty key, the same name with another key), a name and two keys.
ChannelEntries ==
    {C_a, C_b, C_a \o <<":", "p">>, C_a \o <<":", "q">>, C_b \o <<":", "p">>,
     C_a \o <<":">>, C_a \o <<":", "p", ":", "q">>}
ChannelLists == UNION {[1..n -> ChannelEntries] : n \in 0..MaxChans}

EvInputs ==
    {[fam |-> "note", a |-> a, b |-> b, c |-> c, d |-> d] :
        a \in {0, 1} \cup ((NCHARS - 4)..(NCHARS + 1)), b \in 0..MaxPad, c \in 0..MaxWide,
        d \in 0..MaxPad}
    \cup {[fam |-> "commit", kind |-> k, p |-> p, q |-> q] :
            k \in {K_pipeline, K_build}, p \in 0..(SHORT_ID + 1), q \in 0..MaxWide}
    \cup UNION {{FixtureBody(TRUE, k, of, drop) : drop \in {""} \cup DOMAIN Fixture(of)} :
                    k \in KnownKinds \cup UnknownKinds, of \in KnownKinds}
    \cup UNION {{FixtureBody(FALSE, <<>>, of, drop) : drop \in {""} \cup DOMAIN Fixture(of)} :
                    of \in KnownKinds}
    \cup {[fam |-> "channels", list |-> l] : l \in ChannelLists}
    \cup {[fam |-> "tag", ref |-> r, before |-> b] : r \in TagRefs, b \in TagBefores}
    \cup {[fam |-> "wiki", action |-> a] : a \in WikiActions}
    \cup UNION {{[fam |-> "strict", kind |-> k, path |-> pth, absent |-> a] :
                    pth \in RequiredFields(k), a \in BOOLEAN} : k \in KnownKinds}

RenderInit ==
    /\ SysInit
    /\ cfgToken = NoTok
    /\ evIn \in EvInputs
    /\ evOut = [panic |-> FALSE, v |-> None]
    /\ evAgain = Returned(<<>>)
    /\ evPc = "input"

\* dispatch(object_kind, json) on the input.
EvDispatch ==
    /\ evPc = "input"
    /\ evIn.fam # "channels"
    /\ evOut' = DispatchJson(Json(evIn))
    /\ evPc' = "dispatched"
    /\ UNCHANGED <<evIn, evAgain>>
    /\ UNCHANGED sysVars

\* The text a rendered note event shows for its note: what follows
\* "<marker> <user> commented on <type> <url>: ".
NotePrefixLen ==
    Len(M_note) + 1 + Len(T_al) + 1 + Len(S_commented_on) + Len(T_MergeRequest) + 1
    + Len(T_url) + Len(S_colon)
RenderedNote(line) == SubSeq(line, NotePrefixLen + 1, Len(line))

\* The rule of Comment's fmt applied to the note a first rendering showed.
EvReapply ==
    /\ evPc = "dispatched"
    /\ evIn.fam = "note"
    /\ ~evOut.panic /\ evOut.v.some
    /\ evAgain' = NoteMsg(RenderedNote(evOut.v.v))
    /\ evPc' = "reapplied"
    /\ UNCHANGED <<evIn, evOut>>
    /\ UNCHANGED sysVars

\* split_channel_keys(&cfg.channels) on an irc.channels list.
EvSplit ==
    /\ evPc = "input"
    /\ evIn.fam = "channels"
    /\ evOut' = split_channel_keys(evIn.list)
    /\ evPc' = "split"
    /\ UNCHANGED <<evIn, evAgain>>
    /\ UNCHANGED sysVars

RenderNext == EvDispatch \/ EvReapply \/ EvSplit

SpecRender == RenderInit /\ [][RenderNext]_vars

(***************************************************************************)
(* Properties                                                              *)
(***************************************************************************)

\* The header carries the configured token.
HeaderMatches(hdr, cfg) == hdr.some /\ cfg.some /\ hdr.tok = cfg.tok

\* The number of messages channel c received from sender s.
Received(c, s) == Cardinality({i \in 1..Len(delivered[c]) : delivered[c][i] = s})

\* The requests inside a send on the session.
Sending == {r \in Requests : req[r].pc = "sending"}

\* C1: over the whole run the session handle is published at most once, and a
\* later RPL_WELCOME, also one that arrives after init has returned, leaves
\* the handler running: it neither publishes the handle again nor stops the
\* handler.
C1_HandoffAtMostOnce == published <= 1 /\ bgPc # "panicked"

\* C2: a request whose body arrived and whose X-Gitlab-Token is missing or
\* differs from the configured token is answered 400, is never dispatched and
\* never reaches the writer; a request with the configured token and a
\* well-formed push payload is answered 200 and the writer received a line
\* containing "pushed".
C2_TokenGatesTheWebhook ==
    (last.id # 0 /\ last.body.fam # "io_error") =>
        /\ ~HeaderMatches(last.hdr, cfgToken) =>
              /\ last.resp.status = BAD_REQUEST
              /\ ~last.dispatched
              /\ last.writes = 0
              /\ \A c \in Channels : Received(c, last.id) = 0
        /\ (HeaderMatches(last.hdr, cfgToken)
            /\ last.body = FixtureBody(TRUE, K_push, K_push, "")) =>
              /\ last.resp.status = OK
              /\ last.writes = 1
              /\ Contains(last.msg, S_pushed_word)

\* C3: an authenticated request whose discriminant is none of the known kinds
\* (the empty string and an absent object_kind included) makes dispatch
\* return no notification and no error, writes nothing to chat and is
\* answered with an empty-body 200.
C3_UnknownKindDropped ==
    (/\ last.id # 0
     /\ HeaderMatches(last.hdr, cfgToken)
     /\ ParsesAsJson(last.body)
     /\ object_kind(Json(last.body)) \notin KnownKinds) =>
        /\ DispatchJson(Json(last.body)) = [panic |-> FALSE, v |-> None]
        /\ last.writes = 0
        /\ last.resp = Resp(OK, "empty")

\* A body of a known kind that its schema does not decode.
Malformed(body) ==
    /\ ParsesAsJson(body)
    /\ object_kind(Json(body)) \in KnownKinds
    /\ ~FromValue(EventType(object_kind(Json(body))), Json(body)).ok

\* C4: for a known discriminant whose payload fails the decode, what dispatch
\* returns differs from what it returns for an unknown discriminant, the
\* request is answered 400 and nothing is written to chat.
C4_MalformedDistinguished ==
    (/\ last.id # 0
     /\ HeaderMatches(last.hdr, cfgToken)
     /\ Malformed(last.body)) =>
        /\ last.resp.status = BAD_REQUEST
        /\ last.writes = 0
        /\ DispatchJson(Json(last.body))
             # DispatchJson(JObj(With(Json(last.body).v, "object_kind", JStr(T_foo))))

\* C5: an authenticated request whose payload rendered calls write at most
\* once, and is answered with the empty 200 also when that write failed.
C5_WriteOnceBestEffort ==
    /\ \A r \in Requests : req[r].writes <= 1
    /\ (last.id # 0 /\ last.dispatched /\ DispatchJson(Json(last.body)).v.some) =>
          /\ last.writes <= 1
          /\ last.writes = 1 <=> last.result.state \in {"ok", "err"}
          /\ last.resp = Resp(OK, "empty")

\* C5's case: a write that failed, answered 200.
C5_Witness == last.id # 0 /\ last.result.state = "err" /\ last.resp.status = OK

\* C6 as stated: at most one send on the session is in flight, the greeting
\* of the background handler counted.
C6_OneSendInFlight ==
    Cardinality(Sending \cup (IF bgPc = "greeting" THEN {0} ELSE {})) <= 1

\* C6 as amended: at most one send of a webhook request is in flight; a
\* request is inside write exactly while it holds the writer's Mutex, so the
\* guard is held for the write call only and is free again after a write
\* that succeeded and after one that failed.
C6_RequestSendsExclusive ==
    /\ Cardinality(Sending) <= 1
    /\ \A r \in Requests : (req[r].pc = "sending") <=> (lockHolder = r)
    /\ (last.id # 0 /\ last.writes = 1) => lockHolder # last.id

\* C6's case: a request waits for the Mutex while another is inside write.
C6_Witness ==
    \E r1, r2 \in Requests : req[r1].pc = "sending" /\ req[r2].pc = "lock"

\* C7: write sends the message once to each channel of the list, in the
\* list's order, and returns Ok exactly when every send succeeded; an Err
\* names the first channel whose send failed and the cause, every channel
\* before it received the message exactly once and no channel after it was
\* sent to.
C7_WriteFansOutInOrder ==
    (last.id # 0 /\ last.writes = 1) =>
        LET s == last.sends
            snap == last.snap
        IN  /\ Len(s) <= Len(snap)
            /\ \A i \in 1..Len(s) : s[i].chan = snap[i]
            /\ (last.result.state = "ok") <=>
                   (Len(s) = Len(snap) /\ \A i \in 1..Len(s) : s[i].ok)
            /\ last.result.state = "ok" =>
                   \A i \in 1..Len(snap) : Received(snap[i], last.id) = 1
            /\ last.result.state # "ok" =>
                   /\ last.result.state = "err"
                   /\ Len(s) >= 1
                   /\ ~s[Len(s)].ok
                   /\ \A i \in 1..(Len(s) - 1) : s[i].ok
                   /\ last.result.chan = snap[Len(s)]
                   /\ last.result.cause = "io"
                   /\ \A i \in 1..(Len(s) - 1) : Received(snap[i], last.id) = 1
                   /\ \A i \in Len(s)..Len(snap) : Received(snap[i], last.id) = 0

\* C7's case: the send to the second channel failed after the first succeeded.
C7_Witness ==
    /\ last.id # 0
    /\ last.result.state = "err"
    /\ Len(last.snap) = 2
    /\ last.result.chan = last.snap[2]

\* C8: init has a handle only after the handler received a RPL_WELCOME; when
\* the reactor, the connection or identify fails, the thread has ended, no
\* handle was published and init never has one.
C8_HandleOnlyAfterWelcome ==
    /\ mainPc \in {"init_got", "serving"} => welcomes >= 1
    /\ published > 0 => welcomes >= 1
    /\ bgPc = "failed_setup" =>
          /\ ~txAlive
          /\ published = 0
          /\ mainPc \notin {"init_got", "serving"}

\* C8's case: the setup failed and init returned its Err.
C8_Witness == bgPc = "failed_setup" /\ mainPc = "exited"

\* The note of a note input, and the text its rendering shows for it.
NoteOf(b) == NoteText(b.a, b.b, b.c, b.d)

\* C9: a note of at most 40 characters is shown verbatim; a longer one is
\* shown as its first 40 characters, trimmed at the end, and "..."; the rule
\* applied to the text shown gives that text again.
C9_NoteTruncationIdempotent ==
    (evIn.fam = "note" /\ evPc \in {"dispatched", "reapplied"}) =>
        /\ ~evOut.panic
        /\ evOut.v.some
        /\ Len(NoteOf(evIn)) <= NCHARS => RenderedNote(evOut.v.v) = NoteOf(evIn)
        /\ Len(NoteOf(evIn)) > NCHARS =>
              RenderedNote(evOut.v.v) = TrimEnd(SubSeq(NoteOf(evIn), 1, NCHARS)) \o S_dots
        /\ evPc = "reapplied" => evAgain = Returned(RenderedNote(evOut.v.v))

\* The input's payload decodes under the schema of its discriminant.
Decodes(b) ==
    /\ object_kind(Json(b)) \in KnownKinds
    /\ FromValue(EventType(object_kind(Json(b))), Json(b)).ok

\* C10: rendering is total: dispatch never panics, a payload that decoded is
\* rendered to one line, and dispatch returns no line only when the decode
\* failed or the discriminant is unknown.
C10_RenderingTotal ==
    evPc \in {"dispatched", "reapplied"} =>
        /\ ~evOut.panic
        /\ Decodes(evIn) => (evOut.v.some /\ \A i \in 1..Len(evOut.v.v) : evOut.v.v[i] # "\n")
        /\ evOut.v.some => Decodes(evIn)

\* The name and the key of an irc.channels entry: the text before its first
\* ':' and the text after it.
HasKey(c) == \E i \in 1..Len(c) : c[i] = ":"
NameOf(c) == SplitFirst(c, ":")
KeyOf(c) == SubSeq(c, Len(NameOf(c)) + 2, Len(c))
\* The entry is a name, or a name and a key.
PlainEntry(c) == Cardinality({i \in 1..Len(c) : c[i] = ":"}) <= 1

\* C11 as stated: for a list of entries name or name:key the channel list has
\* the input's length and order and holds each entry's name, and the key map
\* holds name -> key exactly for the entries that carry a key.
C11_EveryKeyedEntryMapped ==
    (evPc = "split" /\ \A i \in 1..Len(evIn.list) : PlainEntry(evIn.list[i])) =>
        LET l == evIn.list
        IN  /\ Len(evOut.chans) = Len(l)
            /\ \A i \in 1..Len(l) : evOut.chans[i] = NameOf(l[i])
            /\ \A i \in 1..Len(l) :
                  HasKey(l[i]) =>
                      /\ NameOf(l[i]) \in DOMAIN evOut.keys
                      /\ evOut.keys[NameOf(l[i])] = KeyOf(l[i])
            /\ \A n \in DOMAIN evOut.keys :
                  \E i \in 1..Len(l) :
                      HasKey(l[i]) /\ NameOf(l[i]) = n /\ evOut.keys[n] = KeyOf(l[i])

\* C11 as amended: for every list the channel list has the input's length and
\* order and holds each entry's text before its first ':'; the key map has an
\* entry exactly for the names of the entries that hold a ':', and maps a name
\* to the second piece (the text between the first ':' and the next ':' or
\* the end) of the last entry of that name that holds a ':'.
C11_LastKeyedEntryMapped ==
    evPc = "split" =>
        LET l == evIn.list
            keyed(n) == {i \in 1..Len(l) : HasKey(l[i]) /\ NameOf(l[i]) = n}
            lastOf(n) == CHOOSE i \in keyed(n) : \A j \in keyed(n) : j <= i
        IN  /\ Len(evOut.chans) = Len(l)
            /\ \A i \in 1..Len(l) : evOut.chans[i] = NameOf(l[i])
            /\ DOMAIN evOut.keys = {NameOf(l[i]) : i \in {j \in 1..Len(l) : HasKey(l[j])}}
            /\ \A n \in DOMAIN evOut.keys : evOut.keys[n] = SplitFirst(KeyOf(l[lastOf(n)]), ":")

\* C11's case: a list whose two entries carry different keys for one name.
C11_Witness ==
    /\ evPc = "split"
    /\ Len(evIn.list) = 2
    /\ HasKey(evIn.list[1]) /\ HasKey(evIn.list[2])
    /\ NameOf(evIn.list[1]) = NameOf(evIn.list[2])
    /\ KeyOf(evIn.list[1]) # KeyOf(evIn.list[2])
    /\ DOMAIN evOut.keys = {NameOf(evIn.list[1])}

\* The line of a tag_push event of the inputs whose action and tag name are
\* as given.
TagLine(action, tag) ==
    M_tag_push \o S_space \o T_al \o S_space \o action \o S_tag \o tag \o S_quote_to
    \o T_repo \o S_open \o T_url \o S_close

\* C12: a decoded tag_push is rendered as '<marker> <actor> <action> tag
\* "<tag-name>" to <repo>', the action "pushed" when before is the all-zero
\* sha of 40 characters and "deleted" otherwise, the tag name the text after
\* the ref's last '/', or "<invalid>" when the ref holds no '/'.
C12_TagNameOrInvalid ==
    (evIn.fam = "tag" /\ evPc = "dispatched") =>
        LET action == IF evIn.before = Rep("0", 40) THEN S_pushed_word ELSE S_deleted_word
            tag    == IF \E i \in 1..Len(evIn.ref) : evIn.ref[i] = "/"
                      THEN RSplitFirst(evIn.ref, "/")
                      ELSE S_invalid
        IN  evOut = [panic |-> FALSE, v |-> Some(TagLine(action, tag))]

\* C13: a request whose body is not well-formed JSON is answered with a status
\* of the 400 class, whatever its token header, and nothing is written to
\* chat.
C13_BadJsonRejected400 ==
    (last.id # 0 /\ last.body.fam = "bad_json") =>
        /\ last.resp.status \in 400..499
        /\ last.writes = 0
        /\ \A c \in Channels : Received(c, last.id) = 0

\* C14: a payload of a known kind in which a required field is absent or of
\* the wrong type is never rendered: dispatch returns no line.
C14_StrictDecode ==
    (evIn.fam = "strict" /\ evPc = "dispatched") =>
        evOut = [panic |-> FALSE, v |-> None]

\* C15: a decoded wiki_page is rendered as '<marker> <actor> <action><suffix>
\* wiki page "<title>" (<url>)', the suffix "d" when the action ends in 'e'
\* and "ed" otherwise: "create" gives "created", "edit" gives "edited".
C15_WikiVerbSuffix ==
    (evIn.fam = "wiki" /\ evPc = "dispatched") =>
        LET a      == evIn.action
            suffix == IF a # <<>> /\ a[Len(a)] = "e" THEN <<"d">> ELSE <<"e", "d">>
            line   == M_wiki_page \o S_space \o T_al \o S_space \o a \o suffix
                      \o S_wiki_page \o T_title \o S_quote_open \o T_url \o S_close
        IN  /\ evOut = [panic |-> FALSE, v |-> Some(line)]
            /\ a = T_create => Contains(evOut.v.v, <<"c","r","e","a","t","e","d"," ">>)
            /\ a = <<"e","d","i","t">> => Contains(evOut.v.v, <<"e","d","i","t","e","d"," ">>)

\* C15's case: a wiki_page whose action ends in 'e' has been rendered.
C15_Witness ==
    /\ evIn.fam = "wiki" /\ evPc = "dispatched"
    /\ evIn.action = T_create
    /\ evOut.v.some

\* C16: the greeting is sent into a channel at most once, whatever the
\* inbound messages are.
C16_GreetingOncePerChannel == \A c \in Channels : Received(c, 0) <= 1

\* C17: once init has returned, no inbound message makes the handler fail or
\* the loop end: the thread does not panic and does not leave the loop with
\* an error of the handler.
C17_LoopRunsOn ==
    [][(mainPc = "serving" /\ bgPc \in {"run", "greeting"})
          => bgPc' \notin {"panicked", "failed_loop"}]_vars

\* The background thread has ended.
BgEnded == bgPc \in {"failed_setup", "ended", "failed_loop", "panicked"}

\* C18: when the background thread ends before any welcome was handled,
\* init's wait ends with an Err and no handle, and main returns it without
\* serving; init stays blocked only while the thread lives and no handle is
\* queued.
C18_InitWaitEnds ==
    /\ [](BgEnded /\ welcomes = 0 => mainPc \notin {"init_got", "serving"})
    /\ (mainPc = "init_recv" /\ BgEnded /\ welcomes = 0) ~> (mainPc = "exited")
    /\ [](mainPc = "init_recv" /\ ~ENABLED InitRecv => ~BgEnded /\ chanQ = 0)
    /\ [][mainPc = "exited" => mainPc' = "exited"]_vars

\* C18's case: the event loop stopped before any welcome and init returned
\* its Err.
C18_Witness == bgPc = "ended" /\ welcomes = 0 /\ mainPc = "exited"

\* C19: the fan-outs of two requests never interleave: while a request is
\* inside write, no channel has received another request's message after one
\* of its own, and two channels that both received the messages of two
\* requests received them in the same order.
C19_FanOutsNeverInterleave ==
    LET pos(c, r) == CHOOSE i \in 1..Len(delivered[c]) : delivered[c][i] = r
    IN  /\ \A a \in Sending : \A c \in Channels :
              \A i, j \in 1..Len(delivered[c]) :
                  (i < j /\ delivered[c][i] = a) => delivered[c][j] \in {0, a}
        /\ \A a, b \in Requests : \A c, d \in Channels :
              (/\ a # b
               /\ Received(c, a) = 1 /\ Received(c, b) = 1
               /\ Received(d, a) = 1 /\ Received(d, b) = 1) =>
                  ((pos(c, a) < pos(c, b)) <=> (pos(d, a) < pos(d, b)))

\* C19's case: a request waits for the writer while another is half-way
\* through its fan-out over two channels.
C19_Witness ==
    \E a, b \in Requests :
        /\ req[a].pc = "sending" /\ Len(req[a].snap) = 2 /\ Len(req[a].sends) = 1
        /\ req[a].sends[1].ok
        /\ req[b].pc = "lock"

\* C20: compare_gitlab_token returns Ok only for a header that is present and
\* equal to a configured gitlab.token; with no gitlab.token configured every
\* request whose body arrived is answered 400, is not dispatched and nothing
\* is forwarded.
C20_TokenCheckNeverSkipped ==
    /\ \A h \in Headers, c \in Configs :
          (compare_gitlab_token(h, c) = "ok") <=> (h.some /\ c.some /\ h.tok = c.tok)
    /\ (last.id # 0 /\ last.body.fam # "io_error" /\ ~cfgToken.some) =>
          /\ last.resp.status = BAD_REQUEST
          /\ ~last.dispatched
          /\ last.writes = 0

====
